---- MODULE Spec2Model ----
(***************************************************************************)
(* Model of the telemetry + monetization logging pipeline:                 *)
(*   backend/app/utils/metrics_logger.py     (MetricsLogger)               *)
(*   backend/app/integrations/paywalls_client.py (bill_healing_event)      *)
(* Files are sequences of lines; every handler is a chain of steps of one  *)
(* thread, one step per file-system or lock operation.                     *)
(***************************************************************************)
EXTENDS Integers, Sequences, FiniteSets, TLC

VARIABLES
  csv,         \* the event log file (self.path): sequence of lines, <<>> = absent/empty
  revLog,      \* data/healing_revenue.log: sequence of lines
  fxLog,       \* data/flowxo_events.log: sequence of lines
  lastFlowxo,  \* self._last_flowxo: key -> time of last admission
  now,         \* the wall clock, in seconds
  lock,        \* self.lock: 0 = free, else the thread holding it
  credential,  \* PAYWALLS_KEY is set
  flowxoUrl,   \* FLOWXO_WEBHOOK_URL is set
  healLog,     \* settings.HEALING_LOG_PATH: sequence of lines, <<>> = absent/empty
  pc,          \* per thread: position in the handler it runs
  loc,         \* per thread: the locals of the running call
  ret,         \* per thread: what the last call returned (or that it raised)
  callers,     \* the threads that serve requests
  events,      \* number of calls and external file edits so far
  gDrift,      \* history: the last injected drift and the integrity check after it
  gEpoch,      \* history: the calls begun since all threads were last idle
  fxHist       \* history: the log_flowxo_event calls, in order

vars == <<csv, revLog, fxLog, lastFlowxo, now, lock, credential, flowxoUrl, healLog, pc, loc, ret,
          callers, events, gDrift, gEpoch, fxHist>>

----------------------------------------------------------------------------
\* Bounds of the model
MaxEvents == 3
MaxTime == 3

MaxLines == 3

Threads == {1, 2}

----------------------------------------------------------------------------
\* The canonical schema (self.headers)
Headers == <<"ts", "workflow", "anomaly", "action", "status", "latency_ms", "recovery_pct", "reward">>

HeaderSet == {Headers[i] : i \in DOMAIN Headers}

HeaderCols == 8

\* A row whose values nobody reads (the header line and drifted lines carry it)
NoRow == [k \in HeaderSet |-> IF k \in {"ts", "latency_ms", "recovery_pct", "reward"} THEN 0 ELSE ""]

\* A line of the event log: its kind, its number of comma-separated fields,
\* the event it records (0: none) and the values of a data row.
HeaderLine == [kind |-> "header", cols |-> HeaderCols, ev |-> 0, row |-> NoRow]

\* The defaults log() fills in (values: tenths of a percent, hundredths of a reward)
Defaults == [workflow |-> "unknown", anomaly |-> "unspecified", action |-> "none",
             status |-> "unknown", latency_ms |-> 0, recovery_pct |-> 0, reward |-> 0]

\* row.setdefault(key, val) for every default
FillDefaults(row) ==
  [k \in (DOMAIN row) \cup (DOMAIN Defaults) |-> IF k \in DOMAIN row THEN row[k] ELSE Defaults[k]]

\* (mutation: a ts the caller supplied is kept)
StampTsIfAbsent(row, t) ==
  [k \in (DOMAIN row) \cup {"ts"} |-> IF k \in DOMAIN row THEN row[k] ELSE t]

\* row["ts"] = datetime.now(timezone.utc).isoformat()
StampTs(row, t) ==
  [k \in (DOMAIN row) \cup {"ts"} |-> IF k = "ts" THEN t ELSE row[k]]

\* csv.DictWriter.writerow raises ValueError on a key outside fieldnames
CanWriteRow(row) == DOMAIN row \subseteq HeaderSet

\* The line DictWriter writes for a row
RowLine(row, ev) ==
  [kind |-> "row", cols |-> HeaderCols, ev |-> ev, row |-> [k \in HeaderSet |-> row[k]]]

\* Input rows of log(): a full row, a sparse row with a stale ts, a row with a
\* field outside the schema.
FullRow == [workflow |-> "invoice_processing", anomaly |-> "queue_pressure",
            action |-> "restart_queue", status |-> "success", latency_ms |-> 3500,
            recovery_pct |-> 925, reward |-> 25]

SparseRow == [ts |-> 0 - 1, status |-> "partial"]

ExtraRow == [workflow |-> "order_processing", status |-> "success", note |-> "x"]

RowInputs == {FullRow, SparseRow, ExtraRow}

\* Cells of the numeric columns that hold no number. A natural number stands
\* for itself; two values below zero stand for a text that is no number
\* ("fast"), which DictWriter writes as it is, and for None, which DictWriter
\* writes as the empty field.
TextCell == 0 - 1

BlankCell == 0 - 2

\* Rows a caller of log() can pass with such values
TextRow == [FullRow EXCEPT !.latency_ms = TextCell]

BlankRow == [FullRow EXCEPT !.reward = BlankCell]

SummaryRowInputs == {FullRow, TextRow, BlankRow}

\* Lines an external edit can put in place of the first line: fewer fields than
\* the schema, as many, more.
DriftCols == {3, 8, 9}

DriftLine(c) == [kind |-> "drift", cols |-> c, ev |-> 0, row |-> NoRow]

----------------------------------------------------------------------------
\* pandas

\* pd.read_csv(path, header=None): blank lines are skipped, the first line sets
\* the number of columns, a longer line is a ParserError, a shorter one is
\* padded; an empty file is an EmptyDataError.
NonBlank(file) == SelectSeq(file, LAMBDA l : l.cols > 0)

ParseFails(file) ==
  LET nb == NonBlank(file) IN
    \/ nb = <<>>
    \/ \E i \in DOMAIN nb : nb[i].cols > nb[1].cols

ParseHeaderless(file) ==
  LET nb == NonBlank(file) IN
    [i \in DOMAIN nb |-> [nb[i] EXCEPT !.cols = nb[1].cols]]

\* df.to_csv(path, index=False, header=self.headers) raises when the frame's
\* width is not the number of headers
ToCsvFails(df) == df # <<>> /\ df[1].cols # HeaderCols

ToCsv(df) == <<HeaderLine>> \o df

----------------------------------------------------------------------------
\* Pricing (amounts in 1/10000 USD)
BasePrice == 500

\* The recovery percentages (in tenths, 0.0 to 100.0) at which the double
\* base_price * multiplier lies below the exact product, a tie between two
\* fourth decimals, so that round(..., 4) takes the lower one (computed with the
\* interpreter for every tenth; at the other ties, 92.5 among them, the double
\* lies above and round takes the upper one)
FloatBelowTie ==
  {1, 5, 7, 9, 11, 15, 17, 19, 21, 25, 27, 29, 31, 35, 39, 41, 45, 49, 51,
   55, 59, 61, 65, 69, 75, 79, 85, 89, 99, 109, 119, 219, 227, 235, 239,
   243, 247, 251, 259, 263, 269, 271, 279, 283, 289, 291, 293, 299, 301,
   303, 309, 311, 319, 321, 329, 331, 339, 341, 349, 351, 359, 361, 369,
   371, 379, 389, 399, 409, 419, 429, 453, 473, 485, 493, 505, 513, 525,
   533, 543, 545, 553, 563, 573, 583, 593, 603, 613, 623, 651, 671, 695,
   715, 727, 735, 747, 755, 767, 775, 787, 795, 807, 815, 825, 835, 845,
   855, 865, 881, 901, 913, 921, 933, 941, 961, 977, 981, 997}

\* cost = round(base_price * (1 + recovery_pct / 100), 4), recovery_pct in tenths
Cost(recoveryTenths) ==
  IF recoveryTenths \in FloatBelowTie
  THEN (BasePrice * (1000 + recoveryTenths)) \div 1000
  ELSE (BasePrice * (1000 + recoveryTenths) + 500) \div 1000

\* A line of the revenue log: who wrote it, for which event (0: a gateway line),
\* the number of |-separated parts, the amount and the status written.
LedgerLine(ev, row) ==
  [by |-> "log_revenue", ev |-> ev, parts |-> 5, amt |-> Cost(row["recovery_pct"]),
   st |-> IF row["status"] = "success" THEN "success" ELSE "partial", mode |-> ""]

\* _compute_total_revenue: the amounts of the lines with at least 4 parts
RECURSIVE SumAmounts(_)
SumAmounts(lines) ==
  IF lines = <<>> THEN 0
  ELSE (IF Head(lines).parts >= 4 THEN Head(lines).amt ELSE 0) + SumAmounts(Tail(lines))

\* round(total, 3): to the nearest multiple of 10 (no tie arises below 5 lines)
Round3(n) == ((n + 5) \div 10) * 10

ComputeTotalRevenue(lines) == Round3(SumAmounts(lines))

----------------------------------------------------------------------------
NoResp == [kind |-> "none", code |-> 0, json |-> FALSE]

\* A key the returned dict does not carry
Missing == "<missing>"

NoRet == [op |-> "none", raised |-> FALSE, ev |-> 0, appended |-> FALSE, onHeader |-> TRUE,
          total |-> 0, revSum |-> 0, healings |-> 0, status |-> Missing, mode |-> Missing,
          wrote |-> 0, posted |-> FALSE, resp |-> NoResp, logged |-> Missing,
          rec |-> 0, succ |-> FALSE, amt |-> 0, conc |-> FALSE, adm |-> FALSE,
          missing |-> FALSE, norows |-> FALSE, heal |-> Missing, notify |-> NoResp,
          gated |-> FALSE, failed |-> FALSE, afterFail |-> FALSE,
          numeric |-> 0, n |-> 0, logs |-> <<>>]

NoLoc == [op |-> "none", ev |-> 0, row |-> NoRow, df |-> <<>>, rev0 |-> 0,
          appended |-> FALSE, onHeader |-> TRUE, key |-> "", at |-> 0, call |-> 0,
          posted |-> FALSE, conc |-> FALSE, bill |-> NoRet, missing |-> FALSE,
          heal |-> Missing, notify |-> NoResp, failed |-> FALSE, afterFail |-> FALSE,
          found |-> "none", arg |-> NoRow, triple |-> <<>>]

NoDrift == [pending |-> FALSE, done |-> FALSE, pre |-> <<>>, post |-> <<>>]

NoEpoch == [base |-> <<>>, ok |-> FALSE, evs |-> {}, rows |-> {}, edited |-> FALSE]

AllIdle == \A t \in Threads : pc[t] = "idle"

\* After construction: __init__ has created the three files and
\* _ensure_file_integrity has written the canonical header.
InitFrom(cs, urls, logs) ==
  /\ healLog \in logs
  /\ csv = <<HeaderLine>>
  /\ revLog = <<>>
  /\ fxLog = <<>>
  /\ lastFlowxo = [k \in {} |-> 0]
  /\ now = 0
  /\ lock = 0
  /\ credential \in BOOLEAN
  /\ flowxoUrl \in urls
  /\ pc = [t \in Threads |-> "idle"]
  /\ loc = [t \in Threads |-> NoLoc]
  /\ ret = [t \in Threads |-> NoRet]
  /\ callers = cs
  /\ events = 0
  /\ gDrift = NoDrift
  /\ gEpoch = NoEpoch
  /\ fxHist = <<>>

\* the healing log is empty or absent
InitState(cs, urls) == InitFrom(cs, urls, {<<>>})

\* no outbound webhook is configured
InitWith(cs) == InitState(cs, {FALSE})

Init == InitWith({1})

\* the outbound webhook is or is not configured
InitHook == InitState({1}, BOOLEAN)

InitConc == InitWith(Threads)

\* (mutation: the lock is still held after the block)
ReleaseSkipped(holder) == holder

\* the end of a `with self.lock:` block, left normally or by an exception:
\* nobody holds the lock
Release(holder) == 0

CanBegin(t) == t \in callers /\ pc[t] = "idle" /\ events < MaxEvents

Goto(t, label) == pc' = [pc EXCEPT ![t] = label]

\* The call returns r (or raises): its locals are gone
Return(t, r) ==
  /\ pc' = [pc EXCEPT ![t] = "idle"]
  /\ ret' = [ret EXCEPT ![t] = r]
  /\ loc' = [loc EXCEPT ![t] = NoLoc]

----------------------------------------------------------------------------
\* MetricsLogger._ensure_file_integrity, called first by log() and summary()

AfterEi(op) ==
  IF op = "log" THEN "log_lock" ELSE IF op = "init" THEN "init_done" ELSE "sum_read"

\* The check is over and has left `file` on disk
EiReturn(t, file) ==
  /\ csv' = file
  /\ Goto(t, AfterEi(loc[t].op))
  /\ gDrift' = IF gDrift.pending
               THEN [pending |-> FALSE, done |-> TRUE, pre |-> gDrift.pre, post |-> file]
               ELSE gDrift

\* (mutation: the file is not rewritten)
CreateNewFileSkipped == csv

\* _create_new_file: the file is rewritten as the header line alone
CreateNewFile == <<HeaderLine>>

\* if not self.path.exists() or os.path.getsize(self.path) == 0: create, return
EiExists(t) ==
  /\ pc[t] = "ei_exists"
  /\ IF csv = <<>>
     THEN /\ EiReturn(t, CreateNewFile)
          /\ loc' = [loc EXCEPT ![t].found = "absent"]
     ELSE Goto(t, "ei_header") /\ UNCHANGED <<csv, gDrift, loc>>
  /\ UNCHANGED <<revLog, fxLog, lastFlowxo, now, lock, credential, flowxoUrl, healLog, ret, callers, events, gEpoch, fxHist>>

\* first_line = f.readline().strip().split(","); if first_line != self.headers
FirstLineIsCanonical(file) == file # <<>> /\ file[1] = HeaderLine

EiHeader(t) ==
  /\ pc[t] = "ei_header"
  /\ IF FirstLineIsCanonical(csv)
     THEN EiReturn(t, csv)
     ELSE Goto(t, "ei_parse") /\ UNCHANGED <<csv, gDrift>>
  /\ UNCHANGED <<revLog, fxLog, lastFlowxo, now, lock, credential, flowxoUrl, healLog, loc, ret, callers, events, gEpoch, fxHist>>

\* df = pd.read_csv(self.path, header=None); an exception goes to the handler
EiParse(t) ==
  /\ pc[t] = "ei_parse"
  /\ IF ParseFails(csv)
     THEN /\ loc' = [loc EXCEPT ![t].found = "unparseable"]
          /\ Goto(t, "ei_rebuild")
     ELSE /\ loc' = [loc EXCEPT ![t].df = ParseHeaderless(csv)]
          /\ Goto(t, "ei_tocsv")
  /\ UNCHANGED <<csv, revLog, fxLog, lastFlowxo, now, lock, credential, flowxoUrl, healLog, ret, callers, events, gDrift, gEpoch, fxHist>>

\* df.to_csv(self.path, index=False, header=self.headers)
EiToCsv(t) ==
  /\ pc[t] = "ei_tocsv"
  /\ IF ToCsvFails(loc[t].df)
     THEN Goto(t, "ei_rebuild") /\ UNCHANGED <<csv, gDrift>>
     ELSE EiReturn(t, ToCsv(loc[t].df))
  /\ UNCHANGED <<revLog, fxLog, lastFlowxo, now, lock, credential, flowxoUrl, healLog, loc, ret, callers, events, gEpoch, fxHist>>

\* (mutation: the handler leaves the file as it found it)
EiRebuildKeeps(t) ==
  /\ pc[t] = "ei_rebuild"
  /\ EiReturn(t, csv)
  /\ UNCHANGED <<revLog, fxLog, lastFlowxo, now, lock, credential, flowxoUrl, healLog, loc, ret, callers, events, gEpoch, fxHist>>

\* except Exception: self._create_new_file()
EiRebuild(t) ==
  /\ pc[t] = "ei_rebuild"
  /\ EiReturn(t, CreateNewFile)
  /\ UNCHANGED <<revLog, fxLog, lastFlowxo, now, lock, credential, flowxoUrl, healLog, loc, ret, callers, events, gEpoch, fxHist>>

----------------------------------------------------------------------------
\* MetricsLogger.log

LogBegin(t, row) ==
  /\ CanBegin(t)
  /\ events' = events + 1
  /\ loc' = [loc EXCEPT ![t] = [NoLoc EXCEPT !.op = "log", !.ev = events + 1, !.row = row,
                                             !.afterFail = (ret[t].op = "log" /\ ret[t].failed),
                                             !.arg = row, !.at = now]]
  /\ Goto(t, "ei_exists")
  /\ gEpoch' = IF AllIdle
               THEN [base |-> csv, ok |-> FirstLineIsCanonical(csv) /\ CanWriteRow(StampTs(row, now)),
                     evs |-> {events + 1}, rows |-> {<<events + 1, row>>}, edited |-> FALSE]
               ELSE [gEpoch EXCEPT !.ok = @ /\ CanWriteRow(StampTs(row, now)),
                                   !.evs = @ \cup {events + 1},
                                   !.rows = @ \cup {<<events + 1, row>>}]
  /\ UNCHANGED <<csv, revLog, fxLog, lastFlowxo, now, lock, credential, flowxoUrl, healLog, ret, callers, gDrift, fxHist>>

\* row["ts"] = now; the defaults; with self.lock:
LogLock(t) ==
  /\ pc[t] = "log_lock"
  /\ lock = 0
  /\ lock' = t
  /\ loc' = [loc EXCEPT ![t].row = FillDefaults(StampTs(loc[t].row, now))]
  /\ Goto(t, "log_write")
  /\ UNCHANGED <<csv, revLog, fxLog, lastFlowxo, now, credential, flowxoUrl, healLog, ret, callers, events, gDrift, gEpoch, fxHist>>

\* (mutation: the file is opened with "w")
AppendRowOverwriting(file, line) == <<line>>

\* open(self.path, "a"): the row goes after the last line
AppendRow(file, line) == Append(file, line)

\* writer.writerow(row); f.flush(); the with blocks close the file and release
\* the lock. A ValueError leaves the file as it is and goes to the handler.
LogWrite(t) ==
  /\ pc[t] = "log_write"
  /\ lock' = Release(t)
  /\ IF CanWriteRow(loc[t].row)
     THEN /\ csv' = AppendRow(csv, RowLine(loc[t].row, loc[t].ev))
          /\ loc' = [loc EXCEPT ![t].appended = TRUE,
                                ![t].onHeader = FirstLineIsCanonical(csv),
                                ![t].conc = \E u \in Threads \ {t} : pc[u] # "idle"]
          /\ Goto(t, "rev_lock")
     ELSE /\ Goto(t, "log_except")
          /\ UNCHANGED <<csv, loc>>
  /\ UNCHANGED <<revLog, fxLog, lastFlowxo, now, credential, flowxoUrl, healLog, ret, callers, events, gDrift, gEpoch, fxHist>>

LogResult(t, raised) ==
  [NoRet EXCEPT !.op = "log", !.raised = raised, !.ev = loc[t].ev,
                !.appended = loc[t].appended, !.onHeader = loc[t].onHeader,
                !.conc = loc[t].conc, !.failed = loc[t].failed,
                !.afterFail = loc[t].afterFail]

\* except Exception: self._create_new_file(); log returns
LogExcept(t) ==
  /\ pc[t] = "log_except"
  /\ csv' = CreateNewFile
  /\ Return(t, LogResult(t, FALSE))
  /\ UNCHANGED <<revLog, fxLog, lastFlowxo, now, lock, credential, flowxoUrl, healLog, callers, events, gDrift, gEpoch, fxHist>>

\* log_revenue: with self.lock:
RevLock(t) ==
  /\ pc[t] = "rev_lock"
  /\ lock = 0
  /\ lock' = t
  /\ Goto(t, "rev_write")
  /\ UNCHANGED <<csv, revLog, fxLog, lastFlowxo, now, credential, flowxoUrl, healLog, loc, ret, callers, events, gDrift, gEpoch, fxHist>>

\* What log_revenue was given and what it wrote
RevResult(t) ==
  [LogResult(t, FALSE) EXCEPT !.op = loc[t].op,
                              !.rec = loc[t].row["recovery_pct"],
                              !.succ = (loc[t].row["status"] = "success"),
                              !.amt = LedgerLine(loc[t].ev, loc[t].row).amt,
                              !.logged = LedgerLine(loc[t].ev, loc[t].row).st,
                              !.wrote = 1]

\* f.write(line); f.flush(); release; log_revenue and log return
RevWrite(t) ==
  /\ pc[t] = "rev_write"
  /\ revLog' = Append(revLog, LedgerLine(loc[t].ev, loc[t].row))
  /\ lock' = Release(t)
  /\ Return(t, RevResult(t))
  /\ UNCHANGED <<csv, fxLog, lastFlowxo, now, credential, flowxoUrl, healLog, callers, events, gDrift, gEpoch, fxHist>>

\* The recovery percentages log_revenue is called with, in tenths: the ends of
\* the range, a whole percent, and two with a 5 in the fifth decimal of the product
RecoveryInputs == {0, 5, 500, 925, 1000}

\* log_revenue(workflow, anomaly, recovery_pct, success) called on its own; log
\* passes success = (row["status"] == "success")
RevBegin(t, rec, success) ==
  /\ CanBegin(t)
  /\ events' = events + 1
  /\ loc' = [loc EXCEPT ![t] = [NoLoc EXCEPT !.op = "log_revenue", !.ev = events + 1,
                 !.row = [NoRow EXCEPT !["recovery_pct"] = rec,
                                       !["status"] = IF success THEN "success" ELSE "other"]]]
  /\ Goto(t, "rev_lock")
  /\ UNCHANGED <<csv, revLog, fxLog, lastFlowxo, now, lock, credential, flowxoUrl, healLog, ret, callers, gDrift, gEpoch, fxHist>>

----------------------------------------------------------------------------
\* MetricsLogger.summary

SummaryBegin(t) ==
  /\ CanBegin(t)
  /\ events' = events + 1
  /\ loc' = [loc EXCEPT ![t] = [NoLoc EXCEPT !.op = "summary", !.missing = (csv = <<>>)]]
  /\ Goto(t, "ei_exists")
  /\ UNCHANGED <<csv, revLog, fxLog, lastFlowxo, now, lock, credential, flowxoUrl, healLog, ret, callers, gDrift, gEpoch, fxHist>>

\* pd.read_csv(self.path): the first line names the columns; it raises on an
\* empty file and on a row longer than the first line
ReadCsvFails(file) == ParseFails(file)

DataRows(file) == Tail(NonBlank(file))

NumericCols == {"latency_ms", "recovery_pct", "reward"}

\* df.dropna(subset=[...]): the rows with an empty cell (NaN) in a numeric
\* column go
DropNa(rows) == SelectSeq(rows, LAMBDA l : \A k \in NumericCols : l.row[k] # BlankCell)

\* The rows read whose numeric cells are all numbers
NumericRows(file) ==
  IF ReadCsvFails(file) THEN <<>>
  ELSE SelectSeq(DataRows(file), LAMBDA l : \A k \in NumericCols : l.row[k] >= 0)

\* The dict summary() returns: _empty_summary() when the read fails or the
\* frame is empty, else the rollups with total_revenue recomputed. healings is
\* len(df) after dropna; pd.to_numeric(errors="coerce").fillna(0) turns a text
\* that is no number into 0 and leaves its row in the frame.
SummaryData(file, lines) ==
  IF ReadCsvFails(file) \/ DataRows(file) = <<>>
  THEN [healings |-> 0, total_revenue |-> 0]
  ELSE [healings |-> Len(DropNa(DataRows(file))),
        total_revenue |-> ComputeTotalRevenue(lines)]

SumRead(t) ==
  /\ pc[t] = "sum_read"
  /\ Return(t, [NoRet EXCEPT !.op = "summary",
                             !.total = SummaryData(csv, revLog).total_revenue,
                             !.healings = SummaryData(csv, revLog).healings,
                             !.numeric = Len(NumericRows(csv)),
                             !.revSum = SumAmounts(revLog),
                             !.missing = loc[t].missing,
                             !.norows = (ReadCsvFails(csv) \/ DataRows(csv) = <<>>)])
  /\ UNCHANGED <<csv, revLog, fxLog, lastFlowxo, now, lock, credential, flowxoUrl, healLog, callers, events, gDrift, gEpoch, fxHist>>

----------------------------------------------------------------------------
\* The environment: an external edit of the event log

\* The first line is replaced by a drifted line
DriftTo(c) ==
  /\ events < MaxEvents
  /\ FirstLineIsCanonical(csv)
  /\ events' = events + 1
  /\ csv' = <<DriftLine(c)>> \o Tail(csv)
  /\ gDrift' = [pending |-> TRUE, done |-> FALSE, pre |-> Tail(csv), post |-> <<>>]
  /\ gEpoch' = [gEpoch EXCEPT !.ok = FALSE, !.edited = TRUE]
  /\ UNCHANGED <<revLog, fxLog, lastFlowxo, now, lock, credential, flowxoUrl, healLog, pc, loc, ret, callers, fxHist>>

\* The file is emptied or removed
TruncateTo ==
  /\ events < MaxEvents
  /\ csv # <<>>
  /\ events' = events + 1
  /\ csv' = <<>>
  /\ gDrift' = NoDrift
  /\ gEpoch' = [gEpoch EXCEPT !.ok = FALSE, !.edited = TRUE]
  /\ UNCHANGED <<revLog, fxLog, lastFlowxo, now, lock, credential, flowxoUrl, healLog, pc, loc, ret, callers, fxHist>>

\* between two requests
DriftInject == AllIdle /\ \E c \in DriftCols : DriftTo(c)

Truncate == AllIdle /\ TruncateTo

\* while a request is being served
DriftRace == ~AllIdle /\ \E c \in DriftCols : DriftTo(c)

\* The clock advances. A handler reads the clock once, so the time that passes
\* while it runs is counted before it begins.
Tick ==
  /\ AllIdle
  /\ now < MaxTime
  /\ now' = now + 1
  /\ UNCHANGED <<csv, revLog, fxLog, lastFlowxo, lock, credential, flowxoUrl, healLog, pc, loc, ret, callers, events, gDrift, gEpoch, fxHist>>

----------------------------------------------------------------------------
\* MetricsLogger.log_flowxo_event

FlowxoWindow == 2

\* key = f"{workflow}_{anomaly}_{user_id}"
DedupKey(workflow, anomaly, user) == workflow \o "_" \o anomaly \o "_" \o user

FxInputs == {<<"order_processing", "workflow_delay", "client_001">>,
             <<"order_processing", "workflow_delay", "client_002">>}

\* Triples whose components hold the separator
SeparatorInputs == {<<"order_processing", "delay", "client_001">>,
                    <<"order", "processing_delay", "client_001">>,
                    <<"order", "delay", "client_001">>}

\* (mutation: the comparison is turned round)
SuppressedInverted(last, key, at) == key \in DOMAIN last /\ at - last[key] > FlowxoWindow

\* if key in self._last_flowxo and (now - self._last_flowxo[key]).total_seconds() < 2
Suppressed(last, key, at) == key \in DOMAIN last /\ at - last[key] < FlowxoWindow

\* (mutation: a duplicate is recorded before the return)
OnDuplicateRecorded(last, key, at) ==
  [k \in (DOMAIN last) \cup {key} |-> IF k = key THEN at ELSE last[k]]

\* The table after the `return` of a duplicate, which comes before
\* self._last_flowxo[key] = now
OnDuplicate(last, key, at) == last

\* now = datetime.now(); the key; the duplicate check: a duplicate returns
FxCheck(t, key, l, r) ==
  LET dup == Suppressed(lastFlowxo, key, now) IN
    /\ fxHist' = Append(fxHist, [key |-> key, at |-> now, adm |-> ~dup, triple |-> l.triple])
    /\ IF dup
       THEN /\ lastFlowxo' = OnDuplicate(lastFlowxo, key, now)
            /\ Return(t, r)
       ELSE /\ loc' = [loc EXCEPT ![t] = [l EXCEPT !.key = key, !.at = now,
                                                   !.call = Len(fxHist) + 1]]
            /\ Goto(t, "fx_record")
            /\ UNCHANGED <<ret, lastFlowxo>>

FxBegin(t, x) ==
  /\ CanBegin(t)
  /\ events' = events + 1
  /\ FxCheck(t, DedupKey(x[1], x[2], x[3]), [NoLoc EXCEPT !.op = "flowxo", !.triple = x],
             [NoRet EXCEPT !.op = "flowxo"])
  /\ UNCHANGED <<csv, revLog, fxLog, now, lock, credential, flowxoUrl, healLog, callers, gDrift, gEpoch>>

\* self._last_flowxo[key] = now
Record(last, key, at) ==
  [k \in (DOMAIN last) \cup {key} |-> IF k = key THEN at ELSE last[k]]

FxRecord(t) ==
  /\ pc[t] = "fx_record"
  /\ lastFlowxo' = Record(lastFlowxo, loc[t].key, loc[t].at)
  /\ Goto(t, "fx_lock")
  /\ UNCHANGED <<csv, revLog, fxLog, now, lock, credential, flowxoUrl, healLog, loc, ret, callers, events, gDrift, gEpoch, fxHist>>

\* with self.lock:
FxLock(t) ==
  /\ pc[t] = "fx_lock"
  /\ lock = 0
  /\ lock' = t
  /\ Goto(t, "fx_write")
  /\ UNCHANGED <<csv, revLog, fxLog, lastFlowxo, now, credential, flowxoUrl, healLog, loc, ret, callers, events, gDrift, gEpoch, fxHist>>

\* What receive_event returns: the billing dict, and whether the gate admitted
WebhookResult(t, adm) ==
  [loc[t].bill EXCEPT !.op = "webhook", !.adm = adm, !.gated = TRUE,
                      !.heal = loc[t].heal, !.notify = loc[t].notify]

\* log_flowxo_event returns (nothing) to whoever called it: a request for the
\* gate alone, or receive_event, which then returns its dict
FxReturn(t, wrote) ==
  IF loc[t].op = "webhook"
  THEN WebhookResult(t, TRUE)
  ELSE [NoRet EXCEPT !.op = "flowxo", !.wrote = wrote, !.adm = TRUE]

\* f.write(line); f.flush(); release; return
FxWrite(t) ==
  /\ pc[t] = "fx_write"
  /\ fxLog' = Append(fxLog, [key |-> loc[t].key, call |-> loc[t].call])
  /\ lock' = Release(t)
  /\ Return(t, FxReturn(t, 1))
  /\ UNCHANGED <<csv, revLog, lastFlowxo, now, credential, flowxoUrl, healLog, callers, events, gDrift, gEpoch, fxHist>>

----------------------------------------------------------------------------
\* paywalls_client.bill_healing_event (cost = 0.05 at every call site)

GatewayCost == 500

GatewayLine(status, mode, parts) ==
  [by |-> "gateway", ev |-> 0, parts |-> parts, amt |-> GatewayCost, st |-> status, mode |-> mode]

\* What requests.post can do: answer with a status code and a body that is or
\* is not JSON, raise a transport error, or time out (an exception too)
Responses ==
  {[kind |-> "http", code |-> c, json |-> j] : c \in {200, 201, 500}, j \in BOOLEAN}
  \cup {[kind |-> "exception", code |-> 0, json |-> FALSE],
        [kind |-> "timeout", code |-> 0, json |-> FALSE]}

\* (mutation: the key is not looked at)
BillBranchRemote(key) == "bill_post"

\* if not PAYWALLS_KEY: return _log_local_simulation(...)
BillBranch(key) == IF key THEN "bill_post" ELSE "bill_local"

\* timestamp; the branch on the key; requests.post is sent
BillBegin(t) ==
  /\ CanBegin(t)
  /\ events' = events + 1
  /\ loc' = [loc EXCEPT ![t] = [NoLoc EXCEPT !.op = "bill", !.rev0 = Len(revLog),
                                             !.posted = (BillBranch(credential) = "bill_post")]]
  /\ Goto(t, BillBranch(credential))
  /\ UNCHANGED <<csv, revLog, fxLog, lastFlowxo, now, lock, credential, flowxoUrl, healLog, ret, callers, gDrift, gEpoch, fxHist>>

BillResult(t, status, mode, resp, lines) ==
  [NoRet EXCEPT !.op = "bill", !.status = status, !.mode = mode, !.resp = resp,
                !.posted = loc[t].posted, !.wrote = Len(lines) - loc[t].rev0,
                !.logged = IF Len(lines) > loc[t].rev0 THEN lines[Len(lines)].st ELSE Missing]

\* bill_healing_event returns r: to the request that called it alone, or to
\* receive_event, which goes on to log_flowxo_event
BillDone(t, r) ==
  IF loc[t].op = "webhook"
  THEN /\ loc' = [loc EXCEPT ![t].bill = r]
       /\ Goto(t, IF flowxoUrl THEN "wh_notify" ELSE "wh_gate")
       /\ UNCHANGED ret
  ELSE IF loc[t].op = "trigger"
  THEN /\ loc' = [loc EXCEPT ![t].bill = r]
       /\ Goto(t, "tr_log")
       /\ UNCHANGED ret
  ELSE IF loc[t].op = "simulate"
  THEN Return(t, [r EXCEPT !.op = "simulate", !.heal = loc[t].heal])
  ELSE Return(t, r)

\* _log_local_simulation: one line, then the simulated record
BillLocal(t) ==
  /\ pc[t] = "bill_local"
  /\ revLog' = Append(revLog, GatewayLine("simulated", "", 5))
  /\ BillDone(t, BillResult(t, "simulated", "local", NoResp, revLog'))
  /\ UNCHANGED <<csv, fxLog, lastFlowxo, now, lock, credential, flowxoUrl, healLog, callers, events, gDrift, gEpoch, fxHist>>

\* (mutation: every answer of the server counts as a success)
BillOutcomeAnyAnswer(resp) ==
  IF resp.kind = "http"
  THEN [logStatus |-> "success", logMode |-> "real", status |-> "success", mode |-> "real"]
  ELSE [logStatus |-> "exception", logMode |-> "fallback", status |-> "failed",
        mode |-> "fallback"]

\* The branch bill_healing_event takes on a response: the status and mode it
\* logs and the status and mode of the dict it returns. response.json() runs
\* before the success line is logged and raises on a body that is not JSON.
BillOutcome(resp) ==
  IF resp.kind = "http" /\ resp.code \in {200, 201} /\ resp.json
  THEN [logStatus |-> "success", logMode |-> "real", status |-> "success", mode |-> "real"]
  ELSE IF resp.kind = "http" /\ resp.code \notin {200, 201}
  THEN [logStatus |-> "fallback", logMode |-> "real-failed", status |-> "fallback_logged",
        mode |-> Missing]
  ELSE [logStatus |-> "exception", logMode |-> "fallback", status |-> "failed",
        mode |-> "fallback"]

\* The response arrives; _log_billing_event writes one line; the dict is returned
BillResponse(t, resp) ==
  /\ pc[t] = "bill_post"
  /\ LET o == BillOutcome(resp) IN
       /\ revLog' = Append(revLog, GatewayLine(o.logStatus, o.logMode, 6))
       /\ BillDone(t, BillResult(t, o.status, o.mode, resp, revLog'))
  /\ UNCHANGED <<csv, fxLog, lastFlowxo, now, lock, credential, flowxoUrl, healLog, callers, events, gDrift, gEpoch, fxHist>>

----------------------------------------------------------------------------
\* main.receive_event (POST /webhook)

\* The statuses executor.heal reports (the executor is outside this model)
HealInputs == {"success", "failed"}

\* The body is read, executor.heal runs and reports a status, and
\* bill_healing_event(user_id, anomaly, cost=0.05) is called
WebhookBegin(t, x, heal) ==
  /\ CanBegin(t)
  /\ events' = events + 1
  /\ loc' = [loc EXCEPT ![t] = [NoLoc EXCEPT !.op = "webhook", !.rev0 = Len(revLog),
                                             !.key = DedupKey(x[1], x[2], x[3]),
                                             !.triple = x,
                                             !.heal = heal,
                                             !.posted = (BillBranch(credential) = "bill_post")]]
  /\ Goto(t, BillBranch(credential))
  /\ UNCHANGED <<csv, revLog, fxLog, lastFlowxo, now, lock, credential, flowxoUrl, healLog, ret, callers, gDrift, gEpoch, fxHist>>

\* What requests.post to the outbound webhook can do
NotifyResponses ==
  {[kind |-> "http", code |-> c, json |-> FALSE] : c \in {200, 500}}
  \cup {[kind |-> "exception", code |-> 0, json |-> FALSE],
        [kind |-> "timeout", code |-> 0, json |-> FALSE]}

\* (mutation: the post is not inside a try)
NotifyNextUncaught(resp) == IF resp.kind = "http" THEN "wh_gate" ELSE "wh_raise"

\* try: requests.post(...); the status code is printed; except Exception: the
\* error is printed. The handler goes on either way.
NotifyNext(resp) == "wh_gate"

\* if FLOWXO_WEBHOOK: the outbound notification is sent
WhNotify(t, resp) ==
  /\ pc[t] = "wh_notify"
  /\ IF NotifyNext(resp) = "wh_gate"
     THEN /\ loc' = [loc EXCEPT ![t].notify = resp]
          /\ Goto(t, "wh_gate")
          /\ UNCHANGED ret
     ELSE Return(t, [loc[t].bill EXCEPT !.op = "webhook", !.raised = TRUE,
                                       !.heal = loc[t].heal, !.notify = resp])
  /\ UNCHANGED <<csv, revLog, fxLog, lastFlowxo, now, lock, credential, flowxoUrl, healLog, callers, events, gDrift, gEpoch, fxHist>>

\* metrics_logger.log_flowxo_event(workflow_id, anomaly, user_id) makes its check
WhGate(t) ==
  /\ pc[t] = "wh_gate"
  /\ FxCheck(t, loc[t].key, loc[t], WebhookResult(t, FALSE))
  /\ UNCHANGED <<csv, revLog, fxLog, now, lock, credential, flowxoUrl, healLog, callers, events, gDrift, gEpoch>>

----------------------------------------------------------------------------
\* main.simulate (POST /simulate) and flowxo_client.flowxo_trigger
\* (POST /flowxo/webhook)

\* executor.heal reports a status; bill_healing_event("demo_client", anomaly, 0.05)
\* is called and the dict with the billing is returned
SimulateBegin(t, heal) ==
  /\ CanBegin(t)
  /\ events' = events + 1
  /\ loc' = [loc EXCEPT ![t] = [NoLoc EXCEPT !.op = "simulate", !.rev0 = Len(revLog),
                                             !.heal = heal,
                                             !.posted = (BillBranch(credential) = "bill_post")]]
  /\ Goto(t, BillBranch(credential))
  /\ UNCHANGED <<csv, revLog, fxLog, lastFlowxo, now, lock, credential, flowxoUrl, healLog, ret, callers, gDrift, gEpoch, fxHist>>

\* executor.heal reports a status; bill_healing_event(user_id, anomaly, 0.05)
TriggerBegin(t, x, heal) ==
  /\ CanBegin(t)
  /\ events' = events + 1
  /\ loc' = [loc EXCEPT ![t] = [NoLoc EXCEPT !.op = "trigger", !.rev0 = Len(revLog),
                                             !.key = DedupKey(x[1], x[2], x[3]),
                                             !.heal = heal,
                                             !.posted = (BillBranch(credential) = "bill_post")]]
  /\ Goto(t, BillBranch(credential))
  /\ UNCHANGED <<csv, revLog, fxLog, lastFlowxo, now, lock, credential, flowxoUrl, healLog, ret, callers, gDrift, gEpoch, fxHist>>

\* _log_flowxo_event appends a line to the client's own log (a file nothing in
\* this model reads); if FLOWXO_WEBHOOK_URL: _notify_flowxo_outbound posts and
\* prints what comes back; the dict is returned
TrFinish(t, resp) ==
  /\ pc[t] = "tr_log"
  /\ flowxoUrl <=> resp # NoResp
  /\ Return(t, [loc[t].bill EXCEPT !.op = "trigger", !.heal = loc[t].heal, !.notify = resp])
  /\ UNCHANGED <<csv, revLog, fxLog, lastFlowxo, now, lock, credential, flowxoUrl, healLog, callers, events, gDrift, gEpoch, fxHist>>

----------------------------------------------------------------------------
\* The reporting routes of main.py that read a file themselves. An event log or
\* revenue log without lines stands for an empty file and for an absent one:
\* `absent` says which of the two the route finds.

\* GET /metrics/download: HTTPException(404) when the file does not exist
MetricsDownload(t, absent) ==
  /\ CanBegin(t)
  /\ absent => csv = <<>>
  /\ events' = events + 1
  /\ Return(t, [NoRet EXCEPT !.op = "download", !.missing = absent, !.raised = absent])
  /\ UNCHANGED <<csv, revLog, fxLog, lastFlowxo, now, lock, credential, flowxoUrl, healLog, callers, gDrift, gEpoch, fxHist>>

\* Lines of the healing log (the executor, outside this model, writes them):
\* two entries and a line of blanks
HealingLines == {"healed invoice_processing", "healed order_processing", " "}

Prefixes(n) == UNION {[1..k -> HealingLines] : k \in 0..n}

\* The values of the query parameter n
LogCounts == 0..(MaxLines + 1)

\* line.strip()
Strip(line) == IF line = " " THEN "" ELSE line

\* [line.strip() for line in lines if line.strip()]
Stripped(lines) ==
  LET kept == SelectSeq(lines, LAMBDA l : Strip(l) # "") IN
    [i \in DOMAIN kept |-> Strip(kept[i])]

\* lst[-n:] for n >= 0: -0 is 0, so lst[-0:] is the whole list
LastN(lst, n) ==
  IF n = 0 \/ n >= Len(lst) THEN lst ELSE SubSeq(lst, Len(lst) - n + 1, Len(lst))

\* logs.reverse()
Reverse(lst) == [i \in DOMAIN lst |-> lst[Len(lst) - i + 1]]

\* GET /healing/logs?n=: {"logs": []} when settings.HEALING_LOG_PATH does not
\* exist, else the last n stripped non-empty lines, newest first
GetHealingLogs(t, absent, n) ==
  /\ CanBegin(t)
  /\ absent => healLog = <<>>
  /\ events' = events + 1
  /\ Return(t, [NoRet EXCEPT !.op = "logs", !.missing = absent, !.n = n,
                             !.logs = IF absent THEN <<>>
                                      ELSE Reverse(LastN(Stripped(healLog), n))])
  /\ UNCHANGED <<csv, revLog, fxLog, lastFlowxo, now, lock, credential, flowxoUrl, healLog, callers, gDrift, gEpoch, fxHist>>

\* The lines get_revenue_data counts (every line of the model is of today)
Counted(lines) == SelectSeq(lines, LAMBDA l : l.parts >= 4)

\* GET /metrics/revenue: zeros when data/healing_revenue.log does not exist,
\* else the sum (rounded to 4 decimals) and the number of the lines counted
GetRevenueData(t, absent) ==
  /\ CanBegin(t)
  /\ absent => revLog = <<>>
  /\ events' = events + 1
  /\ Return(t, [NoRet EXCEPT !.op = "revenue", !.missing = absent,
                             !.total = IF absent THEN 0 ELSE SumAmounts(revLog),
                             !.healings = IF absent THEN 0 ELSE Len(Counted(revLog))])
  /\ UNCHANGED <<csv, revLog, fxLog, lastFlowxo, now, lock, credential, flowxoUrl, healLog, callers, gDrift, gEpoch, fxHist>>

\* read_billing_history(limit=100): the last lines of the flat revenue log, []
\* when it does not exist
ReadBillingHistory(t, absent) ==
  /\ CanBegin(t)
  /\ absent => revLog = <<>>
  /\ events' = events + 1
  /\ Return(t, [NoRet EXCEPT !.op = "history", !.missing = absent,
                             !.healings = IF absent THEN 0 ELSE Len(revLog)])
  /\ UNCHANGED <<csv, revLog, fxLog, lastFlowxo, now, lock, credential, flowxoUrl, healLog, callers, gDrift, gEpoch, fxHist>>

----------------------------------------------------------------------------
\* MetricsLogger.__init__ (the service starts again on the files it left)

\* (mutation: the file is opened with "w" whether it exists or not)
EnsureExistsTruncating(file) == <<>>

\* if not file_path.exists(): open(file_path, "w").close(): an absent file
\* becomes an empty one, an existing file is left as it is
EnsureExists(file) == file

\* A new lock, an empty duplicate cache, the three files, then the integrity
\* check of the event log
Construct(t) ==
  /\ AllIdle
  /\ CanBegin(t)
  /\ events' = events + 1
  /\ lock' = 0
  /\ lastFlowxo' = [k \in {} |-> 0]
  /\ csv' = EnsureExists(csv)
  /\ revLog' = EnsureExists(revLog)
  /\ fxLog' = EnsureExists(fxLog)
  /\ loc' = [loc EXCEPT ![t] = [NoLoc EXCEPT !.op = "init"]]
  /\ Goto(t, "ei_exists")
  /\ UNCHANGED <<now, credential, flowxoUrl, healLog, ret, callers, gDrift, gEpoch, fxHist>>

ConstructDone(t) ==
  /\ pc[t] = "init_done"
  /\ Return(t, [NoRet EXCEPT !.op = "init"])
  /\ UNCHANGED <<csv, revLog, fxLog, lastFlowxo, now, lock, credential, flowxoUrl, healLog, callers, events, gDrift, gEpoch, fxHist>>

----------------------------------------------------------------------------
\* I/O failures: a file operation raises OSError

\* What an append that failed half-way leaves at the end of the file
PartialLine(ev) == [kind |-> "partial", cols |-> 3, ev |-> ev, row |-> NoRow]

\* open/writerow/flush of the append raises: nothing or a part of the row has
\* reached the file, the lock is released, the handler of log() runs
LogWriteFail(t, partial) ==
  /\ pc[t] = "log_write"
  /\ lock' = Release(t)
  /\ csv' = IF partial THEN Append(csv, PartialLine(loc[t].ev)) ELSE csv
  /\ loc' = [loc EXCEPT ![t].failed = TRUE]
  /\ Goto(t, "log_except")
  /\ UNCHANGED <<revLog, fxLog, lastFlowxo, now, credential, flowxoUrl, healLog, ret, callers, events, gDrift, gEpoch, fxHist>>

\* _create_new_file raises inside the handler of log(): nothing catches it
LogExceptFail(t) ==
  /\ pc[t] = "log_except"
  /\ Return(t, LogResult(t, TRUE))
  /\ UNCHANGED <<csv, revLog, fxLog, lastFlowxo, now, lock, credential, flowxoUrl, healLog, callers, events, gDrift, gEpoch, fxHist>>

\* the write of log_revenue raises: its own handler prints and returns
RevWriteFail(t) ==
  /\ pc[t] = "rev_write"
  /\ lock' = Release(t)
  /\ Return(t, LogResult(t, FALSE))
  /\ UNCHANGED <<csv, revLog, fxLog, lastFlowxo, now, credential, flowxoUrl, healLog, callers, events, gDrift, gEpoch, fxHist>>

\* _create_new_file raises in _ensure_file_integrity (line 73 or the handler at
\* line 86): the caller, log() or summary(), calls it outside any try
EiCreateFail(t) ==
  /\ \/ pc[t] = "ei_exists" /\ csv = <<>>
     \/ pc[t] = "ei_rebuild"
  /\ Return(t, [NoRet EXCEPT !.op = loc[t].op, !.raised = TRUE, !.ev = loc[t].ev,
                             !.missing = loc[t].missing, !.norows = TRUE])
  /\ UNCHANGED <<csv, revLog, fxLog, lastFlowxo, now, lock, credential, flowxoUrl, healLog, callers, events, gDrift, gEpoch, fxHist>>

\* the read of the first line raises in _ensure_file_integrity (the file cannot
\* be opened or decoded): the handler at lines 84-86 runs
EiReadFail(t) ==
  /\ pc[t] = "ei_header"
  /\ Goto(t, "ei_rebuild")
  /\ UNCHANGED <<csv, revLog, fxLog, lastFlowxo, now, lock, credential, flowxoUrl, healLog, loc, ret, callers, events, gDrift, gEpoch, fxHist>>

\* pd.read_csv raises in summary(): its handler returns _empty_summary()
SumReadFail(t) ==
  /\ pc[t] = "sum_read"
  /\ Return(t, [NoRet EXCEPT !.op = "summary", !.revSum = SumAmounts(revLog),
                             !.missing = loc[t].missing, !.norows = TRUE])
  /\ UNCHANGED <<csv, revLog, fxLog, lastFlowxo, now, lock, credential, flowxoUrl, healLog, callers, events, gDrift, gEpoch, fxHist>>

\* the write of log_flowxo_event raises: its handler prints and returns
FxWriteFail(t) ==
  /\ pc[t] = "fx_write"
  /\ lock' = Release(t)
  /\ Return(t, FxReturn(t, 0))
  /\ UNCHANGED <<csv, revLog, fxLog, lastFlowxo, now, credential, flowxoUrl, healLog, callers, events, gDrift, gEpoch, fxHist>>

\* the write of _log_local_simulation raises: {"status": "failed", "error": ...}
BillLocalFail(t) ==
  /\ pc[t] = "bill_local"
  /\ BillDone(t, BillResult(t, "failed", Missing, NoResp, revLog))
  /\ UNCHANGED <<csv, revLog, fxLog, lastFlowxo, now, lock, credential, flowxoUrl, healLog, callers, events, gDrift, gEpoch, fxHist>>

\* the write of _log_billing_event raises: it prints, the dict is returned
BillLogFail(t, resp) ==
  /\ pc[t] = "bill_post"
  /\ LET o == BillOutcome(resp) IN
       BillDone(t, BillResult(t, o.status, o.mode, resp, revLog))
  /\ UNCHANGED <<csv, revLog, fxLog, lastFlowxo, now, lock, credential, flowxoUrl, healLog, callers, events, gDrift, gEpoch, fxHist>>

----------------------------------------------------------------------------
\* Specifications

\* One handler at a time; the file system does what it is asked
Next ==
  \/ \E t \in Threads :
       \/ \E row \in RowInputs : LogBegin(t, row)
       \/ EiExists(t) \/ EiHeader(t) \/ EiParse(t) \/ EiToCsv(t) \/ EiRebuild(t)
       \/ LogLock(t) \/ LogWrite(t) \/ LogExcept(t) \/ RevLock(t) \/ RevWrite(t)
       \/ SummaryBegin(t) \/ SumRead(t)
       \/ \E x \in FxInputs : FxBegin(t, x)
       \/ FxRecord(t) \/ FxLock(t) \/ FxWrite(t)
       \/ BillBegin(t) \/ BillLocal(t)
       \/ \E resp \in Responses : BillResponse(t, resp)
  \/ DriftInject
  \/ Truncate
  \/ Tick

Spec == Init /\ [][Next]_vars

\* The service with its reporting routes
NextRead ==
  \/ Next
  \/ \E t \in Threads, absent \in BOOLEAN :
       \/ MetricsDownload(t, absent)
       \/ \E n \in LogCounts : GetHealingLogs(t, absent, n)
       \/ GetRevenueData(t, absent)

SpecRead == Init /\ [][NextRead]_vars

\* The notification gate alone: log_flowxo_event calls, one at a time, and the clock
NextGate ==
  \/ \E t \in Threads :
       \/ \E x \in FxInputs : FxBegin(t, x)
       \/ FxRecord(t) \/ FxLock(t) \/ FxWrite(t)
  \/ Tick

SpecGate == Init /\ [][NextGate]_vars

\* GET /healing/logs on a healing log of up to MaxLines lines
InitLogs == InitFrom({1}, {FALSE}, Prefixes(MaxLines))

NextLogs ==
  \E t \in Threads, absent \in BOOLEAN, n \in LogCounts : GetHealingLogs(t, absent, n)

SpecLogs == InitLogs /\ [][NextLogs]_vars

\* The notification gate with workflow and anomaly names that hold "_"
NextKeys ==
  \/ \E t \in Threads :
       \/ \E x \in SeparatorInputs : FxBegin(t, x)
       \/ FxRecord(t) \/ FxLock(t) \/ FxWrite(t)
  \/ Tick

SpecKeys == Init /\ [][NextKeys]_vars

\* The notification gate called by two handlers at once
SpecGateConc == InitConc /\ [][NextGate]_vars

\* The billing gateway alone: bill_healing_event calls, one at a time
NextBill ==
  \E t \in Threads :
    \/ BillBegin(t) \/ BillLocal(t)
    \/ \E resp \in Responses : BillResponse(t, resp)

SpecBill == Init /\ [][NextBill]_vars

\* The revenue ledger alone: log_revenue calls, one at a time
NextRev ==
  \E t \in Threads :
    \/ \E rec \in RecoveryInputs, success \in BOOLEAN : RevBegin(t, rec, success)
    \/ RevLock(t) \/ RevWrite(t)

SpecRev == Init /\ [][NextRev]_vars

\* POST /webhook requests, one at a time, and the clock
NextHook ==
  \/ \E t \in Threads :
       \/ \E x \in FxInputs, heal \in HealInputs : WebhookBegin(t, x, heal)
       \/ \E heal \in HealInputs : SimulateBegin(t, heal)
       \/ \E x \in FxInputs, heal \in HealInputs : TriggerBegin(t, x, heal)
       \/ \E resp \in NotifyResponses \cup {NoResp} : TrFinish(t, resp)
       \/ BillLocal(t)
       \/ \E resp \in Responses : BillResponse(t, resp)
       \/ WhGate(t) \/ FxRecord(t) \/ FxLock(t) \/ FxWrite(t)
  \/ Tick

SpecHook == Init /\ [][NextHook]_vars

\* POST /webhook requests with or without the outbound webhook configured
NextNotify ==
  \E t \in Threads :
    \/ \E heal \in HealInputs :
         WebhookBegin(t, <<"order_processing", "workflow_delay", "client_001">>, heal)
    \/ BillLocal(t)
    \/ \E resp \in {r \in Responses : r.json} : BillResponse(t, resp)
    \/ \E resp \in NotifyResponses : WhNotify(t, resp)
    \/ WhGate(t) \/ FxRecord(t) \/ FxLock(t) \/ FxWrite(t)

SpecNotify == InitHook /\ [][NextNotify]_vars

\* Everything that opens the flat revenue log: its writers, its readers and the
\* construction of the logger on the files of an earlier run
NextLedger ==
  \E t \in Threads :
    \/ \E success \in BOOLEAN : RevBegin(t, 925, success)
    \/ RevLock(t) \/ RevWrite(t)
    \/ BillBegin(t) \/ BillLocal(t)
    \/ \E resp \in Responses : BillResponse(t, resp)
    \/ SummaryBegin(t) \/ EiExists(t) \/ EiHeader(t) \/ SumRead(t)
    \/ \E absent \in BOOLEAN : GetRevenueData(t, absent)
    \/ \E absent \in BOOLEAN : ReadBillingHistory(t, absent)
    \/ Construct(t) \/ ConstructDone(t)

SpecLedger == Init /\ [][NextLedger]_vars

\* POST /webhook on the event loop (thread 1) while POST /simulate is served by
\* a thread of the pool (thread 2)
InitLockNet == InitState(Threads, BOOLEAN)

NextLockNet ==
  \/ WebhookBegin(1, <<"order_processing", "workflow_delay", "client_001">>, "success")
  \/ SimulateBegin(2, "success")
  \/ \E t \in Threads :
       \/ BillLocal(t)
       \/ \E resp \in {r \in Responses : r.json} : BillResponse(t, resp)
       \/ \E resp \in NotifyResponses : WhNotify(t, resp)
       \/ WhGate(t) \/ FxRecord(t) \/ FxLock(t) \/ FxWrite(t)

SpecLockNet == InitLockNet /\ [][NextLockNet]_vars

\* Two handlers run log() concurrently while the file can be edited
NextConc ==
  \/ \E t \in Threads :
       \/ \E row \in RowInputs : LogBegin(t, row)
       \/ EiExists(t) \/ EiHeader(t) \/ EiParse(t) \/ EiToCsv(t) \/ EiRebuild(t)
       \/ LogLock(t) \/ LogWrite(t) \/ LogExcept(t) \/ RevLock(t) \/ RevWrite(t)
  \/ DriftRace

SpecConc == InitConc /\ [][NextConc]_vars

\* Two handlers run log() concurrently with rows of the schema, the file left
\* to them
NextConcLog ==
  \E t \in Threads :
    \/ \E row \in {r \in RowInputs : CanWriteRow(r)} : LogBegin(t, row)
    \/ EiExists(t) \/ EiHeader(t)
    \/ LogLock(t) \/ LogWrite(t) \/ RevLock(t) \/ RevWrite(t)

SpecConcLog == InitConc /\ [][NextConcLog]_vars

\* One handler at a time; any file operation may raise
NextFault ==
  \/ Next
  \/ \E t \in Threads :
       \/ \E partial \in BOOLEAN : LogWriteFail(t, partial)
       \/ LogExceptFail(t) \/ RevWriteFail(t) \/ EiCreateFail(t)
       \/ EiReadFail(t) \/ SumReadFail(t)
       \/ FxWriteFail(t) \/ BillLocalFail(t)
       \/ \E resp \in Responses : BillLogFail(t, resp)

SpecFault == Init /\ [][NextFault]_vars

\* log calls, one at a time, as time goes by
NextLog ==
  \/ \E t \in Threads :
       \/ \E row \in RowInputs : LogBegin(t, row)
       \/ EiExists(t) \/ EiHeader(t)
       \/ LogLock(t) \/ LogWrite(t) \/ LogExcept(t) \/ RevLock(t) \/ RevWrite(t)
  \/ Tick

SpecLog == Init /\ [][NextLog]_vars

\* summary over what log calls have written, numeric cells that hold no
\* number included
NextSummary ==
  \E t \in Threads :
    \/ \E row \in SummaryRowInputs : LogBegin(t, row)
    \/ EiExists(t) \/ EiHeader(t)
    \/ LogLock(t) \/ LogWrite(t) \/ RevLock(t) \/ RevWrite(t)
    \/ SummaryBegin(t) \/ SumRead(t)

SpecSummary == Init /\ [][NextSummary]_vars

\* The integrity check at work: log and summary calls, one at a time, between
\* external edits of the event log
NextRepair ==
  \/ \E t \in Threads :
       \/ LogBegin(t, FullRow)
       \/ EiExists(t) \/ EiHeader(t) \/ EiParse(t) \/ EiToCsv(t) \/ EiRebuild(t)
       \/ LogLock(t) \/ LogWrite(t) \/ RevLock(t) \/ RevWrite(t)
       \/ SummaryBegin(t) \/ SumRead(t)
  \/ DriftInject
  \/ Truncate

SpecRepair == Init /\ [][NextRepair]_vars

\* log calls with rows of the schema, one at a time; the append may raise
NextAppendFault ==
  \E t \in Threads :
    \/ \E row \in {r \in RowInputs : CanWriteRow(r)} : LogBegin(t, row)
    \/ EiExists(t) \/ EiHeader(t)
    \/ LogLock(t) \/ LogWrite(t) \/ LogExcept(t) \/ RevLock(t) \/ RevWrite(t)
    \/ \E partial \in BOOLEAN : LogWriteFail(t, partial)

SpecAppendFault == Init /\ [][NextAppendFault]_vars

----------------------------------------------------------------------------
\* Claims

LedgerLinesOf(ev) == {i \in DOMAIN revLog : revLog[i].by = "log_revenue" /\ revLog[i].ev = ev}

\* C1: every log call that appended its row to the event log has written
\* exactly one line for that event to the revenue ledger when it returns, also
\* when a file write fails.
C1_ExactlyOneLedgerLine ==
  \A t \in Threads :
    (pc[t] = "idle" /\ ret[t].op = "log" /\ ret[t].appended)
      => Cardinality(LedgerLinesOf(ret[t].ev)) = 1

\* The calls of one key that fall inside the window counted from call i
FxWindowFrom(i) ==
  {j \in i..Len(fxHist) : /\ fxHist[j].key = fxHist[i].key
                          /\ fxHist[j].at - fxHist[i].at < FlowxoWindow}

\* Call i opens a sequence: no earlier call of its key lies inside the window before it
FxOpens(i) ==
  \A j \in 1..(i - 1) :
    fxHist[j].key = fxHist[i].key => fxHist[i].at - fxHist[j].at >= FlowxoWindow

FxLinesOf(calls) == {l \in DOMAIN fxLog : fxLog[l].call \in calls}

\* C2: of the sequential log_flowxo_event calls with one key inside the window
\* counted from the first of them, exactly one is admitted, and once they have
\* returned exactly one line stands in the notification log for them.
C2_OneAdmittedPerWindow ==
  \A i \in DOMAIN fxHist :
    FxOpens(i) =>
      /\ Cardinality({j \in FxWindowFrom(i) : fxHist[j].adm}) = 1
      /\ Cardinality(FxLinesOf(FxWindowFrom(i))) <= 1
      /\ AllIdle => Cardinality(FxLinesOf(FxWindowFrom(i))) = 1

C2_Witness ==
  /\ AllIdle
  /\ \E i, j \in DOMAIN fxHist :
       /\ i < j /\ FxOpens(i) /\ j \in FxWindowFrom(i)
       /\ fxHist[i].adm /\ ~fxHist[j].adm
       /\ Cardinality(FxLinesOf(FxWindowFrom(i))) = 1

\* The line a log call of the epoch writes for its event
IsRowOf(line, ev) ==
  \E p \in gEpoch.rows : \E ts \in 0..MaxTime :
    p[1] = ev /\ line = RowLine(FillDefaults(StampTs(p[2], ts)), ev)

\* C3: when the callers that ran log concurrently on a file starting with the
\* canonical header have all returned, the file is what it was followed by
\* exactly one complete row per event, for every interleaving.
C3_ConcurrentAppends ==
  (AllIdle /\ gEpoch.ok) =>
    LET n == Len(gEpoch.base) IN
      /\ Len(csv) = n + Cardinality(gEpoch.evs)
      /\ SubSeq(csv, 1, n) = gEpoch.base
      /\ \A e \in gEpoch.evs :
           Cardinality({i \in (n + 1)..Len(csv) : IsRowOf(csv[i], e)}) = 1

C3_Witness ==
  /\ AllIdle /\ gEpoch.ok
  /\ Cardinality(gEpoch.evs) >= 2
  /\ Len(csv) = Len(gEpoch.base) + Cardinality(gEpoch.evs)

\* C4: the integrity check that follows an injected drift leaves the canonical
\* header first and every data row that was in the file, whatever the drifted
\* first line is.
C4_RepairKeepsRows ==
  gDrift.done =>
    /\ FirstLineIsCanonical(gDrift.post)
    /\ \A i \in DOMAIN gDrift.pre : \E j \in DOMAIN gDrift.post : gDrift.post[j] = gDrift.pre[i]

\* C5: whenever log appends a row, the first line of the file at that moment
\* is the canonical header.
C5_AppendOnCanonicalHeader ==
  \A t \in Threads : loc[t].onHeader /\ ret[t].onHeader

\* C6: log never raises to its caller.
C6_LogNeverRaises ==
  \A t \in Threads : ret[t].op = "log" => ~ret[t].raised

RemoteFailure(resp) ==
  \/ resp.kind \in {"exception", "timeout"}
  \/ resp.kind = "http" /\ resp.code \notin 200..299

\* C7: with a credential, a remote failure gives a result whose status is not
\* "success", no exception, and exactly one line in the flat revenue log.
C7_RemoteFailureFallsBack ==
  \A t \in Threads :
    (ret[t].op = "bill" /\ credential /\ RemoteFailure(ret[t].resp))
      => /\ ret[t].status # "success"
         /\ ~ret[t].raised
         /\ ret[t].wrote = 1

C7_Witness ==
  \E t \in Threads :
    /\ ret[t].op = "bill" /\ credential /\ ret[t].resp.kind = "timeout"
    /\ ret[t].status = "failed" /\ ret[t].wrote = 1

\* C8: with no credential, bill_healing_event returns status "simulated" and
\* mode "local", appends exactly one line and sends no request.
C8_NoCredentialSimulates ==
  \A t \in Threads :
    ~credential =>
      /\ pc[t] # "bill_post"
      /\ ret[t].op = "bill" =>
           /\ ret[t].status = "simulated" /\ ret[t].mode = "local"
           /\ ret[t].wrote = 1
           /\ ~ret[t].posted

C8_Witness ==
  \E t \in Threads :
    /\ ~credential /\ ret[t].op = "bill"
    /\ ret[t].status = "simulated" /\ ret[t].wrote = 1 /\ revLog[Len(revLog)].st = "simulated"

\* C9: with a credential, an answer 200 or 201 gives status "success", mode
\* "real" and exactly one success line, whatever the body is.
C9_Http200IsSuccess ==
  \A t \in Threads :
    (ret[t].op = "bill" /\ credential /\ ret[t].resp.kind = "http" /\ ret[t].resp.code \in {200, 201})
      => /\ ret[t].status = "success" /\ ret[t].mode = "real"
         /\ ret[t].wrote = 1 /\ ret[t].logged = "success"

\* C10: the total_revenue summary returns is the sum of the amounts parsed
\* from the flat revenue log, whatever the two files hold.
C10_TotalIsSum ==
  \A t \in Threads :
    (ret[t].op = "summary" /\ ~ret[t].raised) => ret[t].total = ret[t].revSum

\* The pricing rule: 0.05 * (1 + recoveryPct/100) to the nearest fourth decimal,
\* a 5 in the fifth decimal going up (0.09625 gives 0.0963)
PricingRule(recoveryTenths) == (500 * (1000 + recoveryTenths) + 500) \div 1000

\* C11: log_revenue records the amount the pricing rule gives for its
\* recoveryPct, and "success" when success is true and "partial" otherwise.
C11_AmountFollowsPricingRule ==
  \A t \in Threads :
    (ret[t].op = "log_revenue" /\ ret[t].wrote = 1)
      => /\ ret[t].amt = PricingRule(ret[t].rec)
         /\ ret[t].logged = (IF ret[t].succ THEN "success" ELSE "partial")

\* The row log wrote for event ev is in the file
RowInFile(ev) == \E i \in DOMAIN csv : csv[i].kind = "row" /\ csv[i].ev = ev

\* C12: the check (with its repair or recreation) and the append of a log call
\* are one critical section: among log calls that overlap, with no edit of the
\* file from outside, the row a call has appended is not lost to the repair or
\* recreation another call makes.
C12_AppendSurvivesOtherCall ==
  \A t \in Threads :
    (pc[t] = "idle" /\ ret[t].op = "log" /\ ret[t].appended /\ ret[t].conc
       /\ ret[t].ev \in gEpoch.evs /\ ~gEpoch.edited)
      => RowInFile(ret[t].ev)

\* C13: the check and the record of the gate are atomic: of the calls with one
\* key, concurrent ones included, no two less than a window apart are both
\* admitted.
C13_GateAdmitsOnePerWindow ==
  \A i, j \in DOMAIN fxHist :
    (i < j /\ fxHist[i].key = fxHist[j].key /\ fxHist[j].at - fxHist[i].at < FlowxoWindow)
      => ~(fxHist[i].adm /\ fxHist[j].adm)

\* C14: in /webhook the gate comes before the billing: an event the gate
\* suppresses has caused no charge and no line in the flat revenue log.
C14_SuppressedIsNotBilled ==
  \A t \in Threads :
    (ret[t].op = "webhook" /\ ~ret[t].adm) => (ret[t].wrote = 0 /\ ~ret[t].posted)

\* Two rows of the event log record the same workflow, anomaly and status
SameHealing(a, b) ==
  /\ a.kind = "row" /\ b.kind = "row"
  /\ a.row["workflow"] = b.row["workflow"]
  /\ a.row["anomaly"] = b.row["anomaly"]
  /\ a.row["status"] = b.row["status"]

\* C15: HealingEvent writes pass a gate with a window of 6 seconds: the event
\* log never holds two rows with the same workflow, anomaly and status written
\* by log calls less than 6 seconds apart.
C15_LogGateSixSeconds ==
  \A i, j \in DOMAIN csv :
    (i < j /\ SameHealing(csv[i], csv[j])) => csv[j].row["ts"] - csv[i].row["ts"] >= 6

\* C16: the notification gate has a window of 6 seconds: a log_flowxo_event
\* call less than 6 seconds after an admitted call of its key is suppressed.
C16_FlowxoGateSixSeconds ==
  \A i, j \in DOMAIN fxHist :
    (i < j /\ fxHist[i].key = fxHist[j].key /\ fxHist[i].adm
       /\ fxHist[j].at - fxHist[i].at < 6)
      => ~fxHist[j].adm

\* C17: a row once appended is never deleted or altered: no step of a log or
\* summary call (its integrity check included), taken on a file that starts
\* with the canonical header, removes or changes a data row of the file.
C17_RowsAreNeverRemoved ==
  [][(pc' # pc /\ FirstLineIsCanonical(csv))
       => \A i \in DOMAIN csv :
            csv[i].kind = "row" => \E j \in DOMAIN csv' : csv'[j] = csv[i]]_vars

\* C18: summary is read-only: no step of a summary call changes the event log,
\* the flat revenue log or the dedup map, or takes the lock, whatever state the
\* event log is in.
C18_SummaryIsReadOnly ==
  [][(\E t \in Threads : loc[t].op = "summary" /\ pc'[t] # pc[t])
       => (csv' = csv /\ revLog' = revLog /\ lastFlowxo' = lastFlowxo /\ lock' = lock)]_vars

\* C19: a reporting accessor (summary, revenue, download, recent logs) called
\* while its backing file is missing raises no error and returns an empty or
\* zeroed result.
C19_MissingFileIsTolerated ==
  \A t \in Threads :
    (ret[t].op \in {"summary", "revenue", "download", "logs"} /\ ret[t].missing)
      => (~ret[t].raised /\ ret[t].total = 0 /\ ret[t].healings = 0)

\* C20: when the event log has no data rows or cannot be read or parsed,
\* summary returns the zero-valued stats object and does not raise.
C20_SummaryZeroOnEmptyOrUnreadable ==
  \A t \in Threads :
    (ret[t].op = "summary" /\ ret[t].norows)
      => (~ret[t].raised /\ ret[t].total = 0 /\ ret[t].healings = 0)

\* C21: on every tier the dict bill_healing_event returns carries both a status
\* and a mode.
C21_ResultHasStatusAndMode ==
  \A t \in Threads :
    ret[t].op = "bill" => (ret[t].status # Missing /\ ret[t].mode # Missing)

\* The outbound notification failed
NotifyFailed(resp) ==
  \/ resp.kind \in {"exception", "timeout"}
  \/ resp.kind = "http" /\ resp.code \notin {200, 201}

C23_BilledOnlyAfterSuccess ==
  \A t \in Threads :
    (ret[t].op \in {"webhook", "trigger", "simulate"} /\ ret[t].heal # "success")
      => (ret[t].wrote = 0 /\ ~ret[t].posted)

\* C24: after a log call whose append failed with an I/O exception the event
\* log starts with the canonical header and holds no partial row, and the next
\* log call, with no failure, appends its row and writes its revenue line.
C24_WritableAfterFailedAppend ==
  \A t \in Threads :
    /\ (pc[t] = "idle" /\ ret[t].op = "log" /\ ret[t].failed)
         => /\ ~ret[t].raised
            /\ FirstLineIsCanonical(csv)
            /\ \A i \in DOMAIN csv : csv[i].kind # "partial"
    /\ (pc[t] = "idle" /\ ret[t].op = "log" /\ ret[t].afterFail /\ ~ret[t].failed)
         => /\ ret[t].appended /\ RowInFile(ret[t].ev)
            /\ Cardinality(LedgerLinesOf(ret[t].ev)) = 1

C24_Witness ==
  \E t \in Threads :
    /\ pc[t] = "idle" /\ ret[t].op = "log" /\ ret[t].afterFail /\ ~ret[t].failed
    /\ ret[t].appended /\ csv = <<HeaderLine, RowLine(csv[2].row, ret[t].ev)>>

\* The admitted calls of a key among the first n log_flowxo_event calls
AdmittedBefore(key, n) ==
  {i \in 1..n : fxHist[i].key = key /\ fxHist[i].adm}

\* The latest of a non-empty set of calls
LastOf(calls) == CHOOSE i \in calls : \A j \in calls : j <= i

\* C25: a suppressed log_flowxo_event call leaves the last-admitted timestamp
\* of its key alone: the window of a call is counted from the last admitted
\* call of its key, so a call more than a window after that one is admitted
\* whatever suppressed calls came between, and one less than a window after
\* it is suppressed.
C25_WindowFromLastAdmitted ==
  /\ AllIdle =>
       \A key \in DOMAIN lastFlowxo :
         /\ AdmittedBefore(key, Len(fxHist)) # {}
         /\ lastFlowxo[key] = fxHist[LastOf(AdmittedBefore(key, Len(fxHist)))].at
  /\ \A j \in DOMAIN fxHist :
       LET earlier == AdmittedBefore(fxHist[j].key, j - 1) IN
         earlier # {} =>
           /\ fxHist[j].at - fxHist[LastOf(earlier)].at > FlowxoWindow => fxHist[j].adm
           /\ fxHist[j].at - fxHist[LastOf(earlier)].at < FlowxoWindow => ~fxHist[j].adm

C25_Witness ==
  /\ AllIdle
  /\ \E i, j, k \in DOMAIN fxHist :
       /\ i < j /\ j < k
       /\ fxHist[i].key = fxHist[j].key /\ fxHist[j].key = fxHist[k].key
       /\ fxHist[i].adm /\ ~fxHist[j].adm /\ fxHist[k].adm
       /\ fxHist[k].at - fxHist[j].at <= FlowxoWindow
       /\ lastFlowxo[fxHist[k].key] = fxHist[k].at

\* C26: the gate admits a seen key only when more than the window has gone by
\* since its last admission: a log_flowxo_event call exactly one window after
\* the last admitted call of its key is suppressed.
C26_SuppressedAtExactlyTheWindow ==
  \A j \in DOMAIN fxHist :
    LET earlier == AdmittedBefore(fxHist[j].key, j - 1) IN
      (earlier # {} /\ fxHist[j].at - fxHist[LastOf(earlier)].at <= FlowxoWindow)
        => ~fxHist[j].adm

\* C27: _ensure_file_integrity on an absent or empty event log, and on one
\* whose content its parse rejects, leaves exactly the canonical header line
\* and no data row.
C27_HeaderOnlyAfterRecreation ==
  \A t \in Threads :
    (pc[t] \in {"log_lock", "sum_read"} /\ loc[t].found \in {"absent", "unparseable"})
      => csv = <<HeaderLine>>

C27_Witness ==
  \E t \in Threads :
    /\ pc[t] \in {"log_lock", "sum_read"} /\ loc[t].found = "unparseable"
    /\ gDrift.done /\ gDrift.pre # <<>>
    /\ csv = <<HeaderLine>>

\* C28: on a header mismatch the repair puts the canonical header in the place
\* of the first record: the repaired file is the canonical header followed by
\* exactly the rows that followed the first record, in their order, and the
\* mismatched record is not among them.
C28_RepairDropsFirstRecord ==
  gDrift.done => gDrift.post = <<HeaderLine>> \o gDrift.pre

\* The value the appended row is to carry in column k for the argument arg of
\* a log call made at time at (percentages in tenths, rewards in hundredths)
ExpectedCell(k, arg, at) ==
  IF k = "ts" THEN at
  ELSE IF k \in DOMAIN arg THEN arg[k]
  ELSE CASE k = "workflow" -> "unknown"
         [] k = "anomaly" -> "unspecified"
         [] k = "action" -> "none"
         [] k = "status" -> "unknown"
         [] OTHER -> 0

\* C29: the row log has appended carries the time of the call in ts, whatever ts
\* the caller supplied, and in every other column the caller's value when
\* there is one and otherwise the default ("unknown", "unspecified", "none",
\* "unknown", 0, 0.0, 0.0).
C29_RowIsStampedAndDefaulted ==
  \A t \in Threads :
    (loc[t].op = "log" /\ loc[t].appended)
      => \E i \in DOMAIN csv :
           /\ csv[i].kind = "row" /\ csv[i].ev = loc[t].ev
           /\ \A k \in HeaderSet : csv[i].row[k] = ExpectedCell(k, loc[t].arg, loc[t].at)

C29_Witness ==
  \E t \in Threads : \E i \in DOMAIN csv :
    /\ loc[t].op = "log" /\ loc[t].appended
    /\ loc[t].arg = SparseRow /\ loc[t].at > 0
    /\ csv[i].ev = loc[t].ev
    /\ csv[i].row["ts"] = loc[t].at /\ csv[i].row["ts"] # SparseRow["ts"]
    /\ csv[i].row["status"] = "partial" /\ csv[i].row["workflow"] = "unknown"

\* C30: summary() drops every row with a latency_ms, recovery_pct or reward
\* that is missing or is no number: the healings count is the number of rows
\* whose three cells are numbers.
C30_RowsWithoutNumbersAreDropped ==
  \A t \in Threads :
    (ret[t].op = "summary" /\ ~ret[t].norows)
      => ret[t].healings = ret[t].numeric

\* A request of handler t to the billing gateway or to the outbound webhook is
\* on its way
NetInFlight(t) == pc[t] \in {"bill_post", "wh_notify"}

\* C31: in no reachable state is the log lock held while a remote billing
\* request or an outbound notification request is in flight.
C31_NoLockWhileAnyRequest ==
  lock # 0 => \A t \in Threads : ~NetInFlight(t)

\* C31 (amended): the handler that holds the log lock has no request in
\* flight: each of its acquisitions is released before it starts a network
\* call, and its network calls are over before it acquires the lock.
C31_HolderHasNoRequest ==
  \A t \in Threads : lock = t => ~NetInFlight(t)

C31_Witness ==
  /\ lock = 1 /\ pc[1] = "fx_write" /\ loc[1].op = "webhook"
  /\ loc[1].bill.posted /\ loc[1].notify # NoResp
  /\ ret[2].op = "simulate" /\ ret[2].posted

\* a is an initial part of b
IsPrefix(a, b) == Len(a) <= Len(b) /\ SubSeq(b, 1, Len(a)) = a

\* C32: the flat revenue log is append-only: no step of log_revenue,
\* bill_healing_event, summary, get_revenue_data, read_billing_history or of
\* the construction of the logger on an existing file removes or changes a
\* line; the content before a step is an initial part of the content after it.
C32_LedgerIsAppendOnly == [][IsPrefix(revLog, revLog')]_vars

C32_Witness ==
  \E t \in Threads :
    /\ ret[t].op = "init" /\ pc[t] = "idle"
    /\ \E i, j \in DOMAIN revLog :
         revLog[i].by = "log_revenue" /\ revLog[j].by # "log_revenue"

\* C33: distinct (workflow, anomaly, user_id) triples have distinct keys: the
\* admitted call that makes the gate suppress a log_flowxo_event call has the
\* same triple as the suppressed call.
C33_SuppressedBySameTriple ==
  \A j \in DOMAIN fxHist :
    ~fxHist[j].adm =>
      LET earlier == AdmittedBefore(fxHist[j].key, j - 1) IN
        earlier # {} /\ fxHist[LastOf(earlier)].triple = fxHist[j].triple

\* C34: the status in the line a bill_healing_event call appends to the flat
\* revenue log is the status of the result it returns.
C34_LoggedStatusIsReturnedStatus ==
  \A t \in Threads :
    (ret[t].op = "bill" /\ ret[t].wrote = 1) => ret[t].logged = ret[t].status

\* The n newest of the lines, newest first; all of them when there are fewer
NewestFirst(lines, n) ==
  LET m == IF n < Len(lines) THEN n ELSE Len(lines) IN
    [i \in 1..m |-> lines[Len(lines) - i + 1]]

\* C35: get_healing_logs(n) returns at most n entries for every n >= 0: the n
\* most recent non-empty lines of the healing log, newest first, and all of
\* them when the log has fewer than n non-empty lines.
C35_AtMostNNewestFirst ==
  \A t \in Threads :
    (ret[t].op = "logs" /\ ~ret[t].missing)
      => /\ Len(ret[t].logs) <= ret[t].n
         /\ ret[t].logs = NewestFirst(Stripped(healLog), ret[t].n)

====
